---- MODULE Spec2Model ----
(***************************************************************************)
(* Model of ida_kernelcache/data_flow.py: the register-provenance data     *)
(* flow behind pointer_accesses().  One call of pointer_accesses() is one  *)
(* behaviour: the flow chart is created, the initialization keys are       *)
(* located and enqueued, the worklist loop pops a block, runs the block    *)
(* transfer function instruction by instruction and merges the exit        *)
(* registers into the successors, and the call returns.                    *)
(*                                                                         *)
(* Python integers are unbounded; the only place the code narrows them is  *)
(* the mask 0xffffffffffffffff of the access offset.  The model keeps the  *)
(* mask but scales the word to WordBits bits so that wrap-around happens   *)
(* inside the model checker's integers.                                    *)
(***************************************************************************)
EXTENDS Integers, Sequences, FiniteSets, TLC

\* ------------------------------------------------------------------------
\* Bounds of the model
\* ------------------------------------------------------------------------
WordBits == 8
MaxSeeds == 2
MaxInsns == 2

\* ------------------------------------------------------------------------
\* Program constants
\* ------------------------------------------------------------------------
InsnSize == 4
NumTemps == 19

\* Python's None where a block id / an address is expected
NoBlock == -1

WordMask == 2^WordBits - 1

\* MaskWord without the mask
MaskWordNone(x) == x

\* x & 0xff..ff for a non-negative or negative Python integer
MaskWord(x) == x % (WordMask + 1)

\* Register numbers: Xn is modelled by n.
X0  == 0
X1  == 1
X19 == 19
Regs == {X0, X1, X19}

\* TempRegs as xrange(1, 19)
TempRegsFromOne == 1 .. (NumTemps - 1)

\* TempRegs as xrange(0, 20)
TempRegsThrough19 == 0 .. NumTemps

\* for r in xrange(0, 19): procregs.X{r}
TempRegs == 0 .. (NumTemps - 1)

\* _INSN_OP_DTYP_SZ with an entry for the 16-byte type
INSN_OP_DTYP_SZ_With16 ==
    [d \in {"dt_byte", "dt_word", "dt_dword", "dt_qword", "dt_byte16"} |->
        CASE d = "dt_byte"   -> 1
          [] d = "dt_word"   -> 2
          [] d = "dt_dword"  -> 4
          [] d = "dt_qword"  -> 8
          [] d = "dt_byte16" -> 16]

\* _INSN_OP_DTYP_SZ
INSN_OP_DTYP_SZ ==
    [d \in {"dt_byte", "dt_word", "dt_dword", "dt_qword"} |->
        CASE d = "dt_byte"  -> 1
          [] d = "dt_word"  -> 2
          [] d = "dt_dword" -> 4
          [] d = "dt_qword" -> 8]

\* ------------------------------------------------------------------------
\* Python dict helpers on register maps (functions with a finite domain)
\* ------------------------------------------------------------------------
EmptyMap == [x \in {} |-> 0]

\* d[k] = v
DictSet(d, k, v) == [x \in (DOMAIN d) \cup {k} |-> IF x = k THEN v ELSE d[x]]

\* d.pop(k, None)
DictPop(d, k) == [x \in (DOMAIN d) \ {k} |-> d[x]]

\* d.pop(k, None) for every k of ks
DictPopAll(d, ks) == [x \in (DOMAIN d) \ ks |-> d[x]]

\* ------------------------------------------------------------------------
\* Operands and instructions as the decoder provides them
\* ------------------------------------------------------------------------
VoidOp == [type |-> "o_void", reg |-> 0, addr |-> 0, value |-> 0, dtyp |-> "dt_void"]
RegOp(r, dt) == [type |-> "o_reg", reg |-> r, addr |-> 0, value |-> 0, dtyp |-> dt]
DisplOp(r, d, dt) == [type |-> "o_displ", reg |-> r, addr |-> d, value |-> 0, dtyp |-> dt]
ImmOp(v) == [type |-> "o_imm", reg |-> 0, addr |-> 0, value |-> v, dtyp |-> "dt_qword"]

\* insn.Op1 .. insn.Op4: operands past the last one are o_void
OpN(insn, i) == IF i <= Len(insn.Ops) THEN insn.Ops[i] ELSE VoidOp

\* for op in insn.Operands: if op.type == o_void: break
\* the positions (1-based; op.n is the position minus one) the loop visits
RECURSIVE VisitedFrom(_, _)
VisitedFrom(insn, i) ==
    IF i > Len(insn.Ops) \/ insn.Ops[i].type = "o_void"
    THEN {}
    ELSE {i} \cup VisitedFrom(insn, i + 1)

VisitedOps(insn) == VisitedFrom(insn, 1)

\* ------------------------------------------------------------------------
\* The initialization dictionary: a sequence of items in the dictionary's
\* iteration order, [ea |-> address, regs |-> register map], with distinct
\* addresses.
\* ------------------------------------------------------------------------
InitKeys(fix) == {fix[i].ea : i \in 1 .. Len(fix)}

\* fix.get(ea)
FixGet(fix, ea) ==
    IF ea \in InitKeys(fix)
    THEN (CHOOSE i \in 1 .. Len(fix) : fix[i].ea = ea)
    ELSE 0

\* ApplyFix as a pin that yields to the propagated state: only registers
\* without an offset are set
ApplyFixAbsentOnly(fix, ea, regs) ==
    LET i == FixGet(fix, ea) IN
    IF i = 0
    THEN regs
    ELSE [r \in (DOMAIN regs) \cup (DOMAIN fix[i].regs) |->
            IF r \in DOMAIN regs THEN regs[r] ELSE fix[i].regs[r]]

\* lines 58-62: regs[reg] = delta for every item of fix.get(insn.ea)
ApplyFix(fix, ea, regs) ==
    LET i == FixGet(fix, ea) IN
    IF i = 0
    THEN regs
    ELSE [r \in (DOMAIN regs) \cup (DOMAIN fix[i].regs) |->
            IF r \in DOMAIN fix[i].regs THEN fix[i].regs[r] ELSE regs[r]]

\* insn.auxpref & _ARM64_WRITEBACK
IsWriteback(insn) == insn.writeback

\* InsnAccesses with the offset of the register as the key: the
\* displacement op.addr is left out of line 73
InsnAccessesNoDispl(insn, regs) ==
    IF IsWriteback(insn)
    THEN {}
    ELSE { <<MaskWord(regs[insn.Ops[i].reg]),
             INSN_OP_DTYP_SZ[insn.Ops[i].dtyp],
             insn.ea,
             regs[insn.Ops[i].reg]>> :
             i \in { j \in VisitedOps(insn) :
                        /\ insn.Ops[j].type = "o_displ"
                        /\ insn.Ops[j].reg \in DOMAIN regs
                        /\ insn.Ops[j].dtyp \in DOMAIN INSN_OP_DTYP_SZ } }

\* InsnAccesses without the test of the write-back flag
InsnAccessesAlways(insn, regs) ==
    { <<MaskWord(regs[insn.Ops[i].reg] + insn.Ops[i].addr),
        INSN_OP_DTYP_SZ[insn.Ops[i].dtyp],
        insn.ea,
        regs[insn.Ops[i].reg]>> :
        i \in { j \in VisitedOps(insn) :
                   /\ insn.Ops[j].type = "o_displ"
                   /\ insn.Ops[j].reg \in DOMAIN regs
                   /\ insn.Ops[j].dtyp \in DOMAIN INSN_OP_DTYP_SZ } }

\* lines 64-75: the observations one instruction records, as
\* <<offset, size, ea, delta>>
InsnAccesses(insn, regs) ==
    IF IsWriteback(insn)
    THEN {}
    ELSE { <<MaskWord(regs[insn.Ops[i].reg] + insn.Ops[i].addr),
             INSN_OP_DTYP_SZ[insn.Ops[i].dtyp],
             insn.ea,
             regs[insn.Ops[i].reg]>> :
             i \in { j \in VisitedOps(insn) :
                        /\ insn.Ops[j].type = "o_displ"
                        /\ insn.Ops[j].reg \in DOMAIN regs
                        /\ insn.Ops[j].dtyp \in DOMAIN INSN_OP_DTYP_SZ } }

\* AddAccesses as an assignment: the set of a key is replaced by what the
\* instruction records
AddAccessesReplace(acc, obs) ==
    LET newKeys == { <<o[1], o[2]>> : o \in obs } IN
    [k \in (DOMAIN acc) \cup newKeys |->
        IF k \in newKeys
        THEN { <<o[3], o[4]>> : o \in { p \in obs : <<p[1], p[2]>> = k } }
        ELSE acc[k]]

\* accesses[(offset, size)].add((insn.ea, delta)) for a set of observations
AddAccesses(acc, obs) ==
    LET newKeys == { <<o[1], o[2]>> : o \in obs } IN
    [k \in (DOMAIN acc) \cup newKeys |->
        (IF k \in DOMAIN acc THEN acc[k] ELSE {})
            \cup { <<o[3], o[4]>> : o \in { p \in obs : <<p[1], p[2]>> = k } }]

\* IsMov without the tests of the operand widths
IsMovAnyWidth(insn, regs) ==
    /\ insn.itype = "ARM_mov"
    /\ OpN(insn, 1).type = "o_reg"
    /\ OpN(insn, 2).type = "o_reg"
    /\ OpN(insn, 3).type = "o_void"
    /\ OpN(insn, 2).reg \in DOMAIN regs

\* lines 77-83: MOV Xdst, Xsrc
IsMov(insn, regs) ==
    /\ insn.itype = "ARM_mov"
    /\ OpN(insn, 1).type = "o_reg"
    /\ OpN(insn, 2).type = "o_reg"
    /\ OpN(insn, 3).type = "o_void"
    /\ OpN(insn, 1).dtyp = "dt_qword"
    /\ OpN(insn, 2).dtyp = "dt_qword"
    /\ OpN(insn, 2).reg \in DOMAIN regs

\* IsAddImm without the test that the third operand is an immediate
IsAddImmAnyThird(insn, regs) ==
    /\ insn.itype = "ARM_add"
    /\ OpN(insn, 1).type = "o_reg"
    /\ OpN(insn, 2).type = "o_reg"
    /\ OpN(insn, 4).type = "o_void"
    /\ OpN(insn, 1).dtyp = "dt_qword"
    /\ OpN(insn, 2).dtyp = "dt_qword"
    /\ OpN(insn, 2).reg \in DOMAIN regs

\* lines 87-94: ADD Xdst, Xsrc, #amt
IsAddImm(insn, regs) ==
    /\ insn.itype = "ARM_add"
    /\ OpN(insn, 1).type = "o_reg"
    /\ OpN(insn, 2).type = "o_reg"
    /\ OpN(insn, 3).type = "o_imm"
    /\ OpN(insn, 4).type = "o_void"
    /\ OpN(insn, 1).dtyp = "dt_qword"
    /\ OpN(insn, 2).dtyp = "dt_qword"
    /\ OpN(insn, 2).reg \in DOMAIN regs

\* line 99
IsCall(insn) == insn.itype = "ARM_bl" \/ insn.itype = "ARM_blr"

\* ClearedRegs without the write-back clause of line 121
ClearedRegsFlaggedOnly(insn) ==
    { insn.Ops[i].reg :
        i \in { j \in VisitedOps(insn) :
                   (j - 1) \in insn.feature /\ insn.Ops[j].type = "o_reg" } }

\* lines 117-123: the registers an unrecognized instruction clears
ClearedRegs(insn) ==
    { insn.Ops[i].reg :
        i \in { j \in VisitedOps(insn) :
                   \/ ((j - 1) \in insn.feature /\ insn.Ops[j].type = "o_reg")
                   \/ (IsWriteback(insn) /\ insn.Ops[j].type = "o_displ") } }

\* lines 77-123: the register update of one instruction
UpdateRegs(insn, regs) ==
    IF IsMov(insn, regs)
    THEN DictSet(regs, OpN(insn, 1).reg, regs[OpN(insn, 2).reg])
    ELSE IF IsAddImm(insn, regs)
    THEN DictSet(regs, OpN(insn, 1).reg, regs[OpN(insn, 2).reg] + OpN(insn, 3).value)
    ELSE IF IsCall(insn)
    THEN DictPopAll(regs, TempRegs)
    ELSE DictPopAll(regs, ClearedRegs(insn))

\* ------------------------------------------------------------------------
\* Instructions of the analysed image.  An instruction is
\* [ea, size, itype, Ops, writeback, feature]; feature is the set of operand
\* numbers n whose CF_CHG flag get_canon_feature() reports.
\* ------------------------------------------------------------------------
Insn(itype, ops, wb, chg) ==
    [ea |-> 0, size |-> InsnSize, itype |-> itype, Ops |-> ops,
     writeback |-> wb, feature |-> chg]

\* LDR dst, [base, #d]       (dt is the width of the memory operand)
Ldr(dst, base, d, dt) == Insn("ARM_ldr", <<RegOp(dst, dt), DisplOp(base, d, dt)>>, FALSE, {0})
\* LDR dst, [base, #d]!      (write-back addressing)
LdrWb(dst, base, d, dt) == Insn("ARM_ldr", <<RegOp(dst, dt), DisplOp(base, d, dt)>>, TRUE, {0})
\* STR src, [base, #d]!     (write-back addressing)
StrWb(src, base, d, dt) == Insn("ARM_str", <<RegOp(src, dt), DisplOp(base, d, dt)>>, TRUE, {})
\* STR src, [base, #d]
Str(src, base, d, dt) == Insn("ARM_str", <<RegOp(src, dt), DisplOp(base, d, dt)>>, FALSE, {})
\* MOV dst, src
Mov(dst, src, dt) == Insn("ARM_mov", <<RegOp(dst, dt), RegOp(src, dt)>>, FALSE, {0})
\* ADD dst, src, #imm
AddImm(dst, src, imm) ==
    Insn("ARM_add", <<RegOp(dst, "dt_qword"), RegOp(src, "dt_qword"), ImmOp(imm)>>, FALSE, {0})
\* ADD dst, src, src2
AddReg(dst, src, src2) ==
    Insn("ARM_add", <<RegOp(dst, "dt_qword"), RegOp(src, "dt_qword"), RegOp(src2, "dt_qword")>>,
         FALSE, {0})
\* BL target
Bl == Insn("ARM_bl", <<[VoidOp EXCEPT !.type = "o_near"]>>, FALSE, {})
\* BLR Xn
Blr(r) == Insn("ARM_blr", <<RegOp(r, "dt_qword")>>, FALSE, {})
\* NOP
Nop == Insn("ARM_nop", <<>>, FALSE, {})

\* The instructions the multi-block images are built from.
CoreInsns ==
    { Ldr(X1, X0, 8, "dt_qword"),
      AddImm(X0, X0, 8),
      Mov(X19, X0, "dt_qword"),
      Bl }

\* The instructions the single-block images are built from.
LineInsns ==
    CoreInsns \cup
    { Ldr(X1, X0, d, dt) : d \in {0, 16}, dt \in {"dt_byte", "dt_word", "dt_dword", "dt_qword"} }
    \cup
    { Ldr(X0, X0, 0, "dt_qword"),
      Ldr(X1, X19, 8, "dt_qword"),
      Ldr(X1, X0, 16, "dt_byte16"),
      LdrWb(X1, X0, 8, "dt_qword"),
      Str(X1, X0, 8, "dt_qword"),
      StrWb(X1, X0, 8, "dt_qword"),
      Mov(X0, X19, "dt_qword"),
      Mov(X1, X0, "dt_dword"),
      AddImm(X1, X0, 16),
      AddReg(X1, X0, X19),
      Blr(X1),
      Nop }

\* All sequences over S of length lo .. hi
SeqsOf(S, lo, hi) == UNION { [1 .. n -> S] : n \in lo .. hi }

\* ------------------------------------------------------------------------
\* The image the CFG provider and the decoder read: basic blocks
\* [id, startEA, endEA, succs] in flow-chart order and the instruction at
\* each decodable address.  A block whose tail is "short" ends inside its
\* last instruction; one whose tail is "hole" ends with bytes that do not
\* decode.
\* ------------------------------------------------------------------------
BodySpan(body, tail) ==
    InsnSize * Len(body) + (IF tail = "hole" THEN InsnSize ELSE 0)

RECURSIVE BlockStart(_, _, _)
BlockStart(bodies, tails, b) ==
    IF b = 1 THEN 0
    ELSE BlockStart(bodies, tails, b - 1) + BodySpan(bodies[b - 1], tails[b - 1])

BlockEnd(bodies, tails, b) ==
    BlockStart(bodies, tails, b) + BodySpan(bodies[b], tails[b])
        - (IF tails[b] = "short" THEN InsnSize \div 2 ELSE 0)

\* the address of instruction k of block b
InsnAddr(bodies, tails, b, k) == BlockStart(bodies, tails, b) + InsnSize * (k - 1)

InsnSlots(bodies) == { <<b, k>> : b \in 1 .. Len(bodies), k \in 1 .. MaxInsns + 1 }

BuildImage(bodies, succs, tails) ==
    LET slots == { s \in InsnSlots(bodies) : s[2] <= Len(bodies[s[1]]) } IN
    [blocks |-> [b \in 1 .. Len(bodies) |->
                    [id |-> b - 1,
                     startEA |-> BlockStart(bodies, tails, b),
                     endEA |-> BlockEnd(bodies, tails, b),
                     succs |-> succs[b]]],
     code |-> [a \in { InsnAddr(bodies, tails, s[1], s[2]) : s \in slots } |->
                LET s == CHOOSE t \in slots : InsnAddr(bodies, tails, t[1], t[2]) = a
                IN [bodies[s[1]][s[2]] EXCEPT !.ea = a]]]

\* PastEnd without the test: the instruction is yielded whatever its end
PastEndNever(next_pc, end) == FALSE

\* ida_utilities line 164: if next_pc > end
PastEnd(next_pc, end) == next_pc > end

\* idautils.DecodeInstruction(pc) is not None
Decodes(code, a) == a \in DOMAIN code

\* idautils.DecodeInstruction(pc), where it decodes
DecodeInstruction(code, a) == code[a]

\* The successor lists bb.succs() of a block among n blocks: at most two
\* distinct successors, the lower block first.
SuccLists(n) ==
    { <<>> } \cup { <<x>> : x \in 0 .. n - 1 }
             \cup { p \in { <<x, y>> : x \in 0 .. n - 1, y \in 0 .. n - 1 } : p[1] < p[2] }

\* ------------------------------------------------------------------------
\* State
\* ------------------------------------------------------------------------
VARIABLES
    image,          \* what the CFG provider and the decoder read
    function,       \* argument: "None", "good" (inside a function) or "bad"
    bounds,         \* argument: "None" or "given"
    initialization, \* argument: the initialization dictionary
    sink,           \* TRUE iff the caller supplied the accesses dictionary
    accesses,       \* the accesses dictionary (empty before it exists)
    flow,           \* the flow chart (empty before it exists)
    bb_regs,        \* block id -> registers at the start of the block
    queue,          \* collections.deque of blocks (their ids)
    pc,             \* position of the call
    seed_i,         \* position of the seeding loop in initialization
    bb,             \* the block being processed
    regs,           \* _pointer_accesses_process_block: regs
    insn_pc,        \* idau.Instructions: pc
    log,            \* addresses reported as contained in no basic block
    error,          \* the exception that ended the call, if any
    result,         \* the value the call returned: [none, value]
    accesses0,      \* history: the caller's dictionary as it was at the call
    trace,          \* history: the blocks popped, in order
    first_obs,      \* history: what each instruction recorded the first time
                    \*   it recorded anything
    call_known,     \* history: registers known at a call of this pass over the
                    \*   block and not written by a recognised MOV/ADD since
    call_pinned,    \* history: registers pinned since the last call of this pass
    last,           \* history: [ea, regs] of the instruction processed last,
                    \*   regs being the registers after pinning
    runs            \* history: the calls made before this one

vars == <<image, function, bounds, initialization, sink, accesses, flow, bb_regs,
          queue, pc, seed_i, bb, regs, insn_pc, log, error, result, accesses0,
          trace, first_obs, call_known, call_pinned, last, runs>>

\* the history of the block pass in progress
pass == <<call_known, call_pinned, last>>

\* the arguments and the image do not change during a call
args == <<image, function, bounds, initialization, sink, accesses0, runs>>

BlockOf(id) == flow[id + 1]

\* the call returned None (or has not returned)
NoResult == [none |-> TRUE, value |-> EmptyMap]

\* LocateBlock with the end address inside the block:
\* bb.startEA <= ea <= bb.endEA
LocateBlockInclusiveEnd(fl, ea) ==
    IF \E i \in 1 .. Len(fl) : fl[i].startEA <= ea /\ ea <= fl[i].endEA
    THEN fl[CHOOSE i \in 1 .. Len(fl) :
                /\ fl[i].startEA <= ea /\ ea <= fl[i].endEA
                /\ \A j \in 1 .. i - 1 : ~(fl[j].startEA <= ea /\ ea <= fl[j].endEA)].id
    ELSE NoBlock

\* LocateBlock without the else branch of the search: an address that no
\* block contains is given the first block
LocateBlockOrFirst(fl, ea) ==
    IF \E i \in 1 .. Len(fl) : fl[i].startEA <= ea /\ ea < fl[i].endEA
    THEN fl[CHOOSE i \in 1 .. Len(fl) :
                /\ fl[i].startEA <= ea /\ ea < fl[i].endEA
                /\ \A j \in 1 .. i - 1 : ~(fl[j].startEA <= ea /\ ea < fl[j].endEA)].id
    ELSE fl[1].id

\* lines 135-138: the first block of the flow chart that contains ea, or None
LocateBlock(fl, ea) ==
    IF \E i \in 1 .. Len(fl) : fl[i].startEA <= ea /\ ea < fl[i].endEA
    THEN fl[CHOOSE i \in 1 .. Len(fl) :
                /\ fl[i].startEA <= ea /\ ea < fl[i].endEA
                /\ \A j \in 1 .. i - 1 : ~(fl[j].startEA <= ea /\ ea < fl[j].endEA)].id
    ELSE NoBlock

\* MergeInto as succ_regs.update(exit_regs): the exit registers win
MergeIntoOverwrite(succ_regs, exit_regs) ==
    [r \in (DOMAIN succ_regs) \cup (DOMAIN exit_regs) |->
        IF r \in DOMAIN exit_regs THEN exit_regs[r] ELSE succ_regs[r]]

\* lines 167-175 for one successor: first-wins union of exit_regs into the
\* successor's entry registers
MergeInto(succ_regs, exit_regs) ==
    [r \in (DOMAIN succ_regs) \cup (DOMAIN exit_regs) |->
        IF r \in DOMAIN succ_regs THEN succ_regs[r] ELSE exit_regs[r]]

\* MergeUpdates without line 171: update stays False
MergeUpdatesNever(succ_regs, exit_regs) == FALSE

\* MergeUpdates as a test for a difference of the two key sets
MergeUpdatesDiffer(succ_regs, exit_regs) == DOMAIN exit_regs # DOMAIN succ_regs

\* line 171: update = True iff some register of exit_regs was absent
MergeUpdates(succ_regs, exit_regs) == (DOMAIN exit_regs) \ (DOMAIN succ_regs) # {}

\* MergeSucc as a merge that re-enqueues a successor whenever the exit
\* registers are not empty
MergeSuccAlways(succ_regs, exit_regs) ==
    [regs |-> MergeInto(succ_regs, exit_regs),
     update |-> DOMAIN exit_regs # {}]

\* MergeSucc as the merge of a full fixpoint iteration: a changed offset
\* replaces the old one and re-enqueues the successor
MergeSuccFixpoint(succ_regs, exit_regs) ==
    [regs |-> [r \in (DOMAIN succ_regs) \cup (DOMAIN exit_regs) |->
                 IF r \in DOMAIN exit_regs THEN exit_regs[r] ELSE succ_regs[r]],
     update |-> \E r \in DOMAIN exit_regs :
                   r \notin DOMAIN succ_regs \/ succ_regs[r] # exit_regs[r]]

\* MergeSucc as a last-wins merge: a register the successor already has is
\* overwritten
MergeSuccLastWins(succ_regs, exit_regs) ==
    [regs |-> [r \in (DOMAIN succ_regs) \cup (DOMAIN exit_regs) |->
                 IF r \in DOMAIN exit_regs THEN exit_regs[r] ELSE succ_regs[r]],
     update |-> MergeUpdates(succ_regs, exit_regs)]

\* lines 167-175: the successor's new entry registers and whether it is
\* enqueued
MergeSucc(succ_regs, exit_regs) ==
    [regs |-> MergeInto(succ_regs, exit_regs),
     update |-> MergeUpdates(succ_regs, exit_regs)]

\* lines 162-175: the loop over bb.succs(), from successor i on; yields
\* <<bb_regs, queue>>
RECURSIVE MergeSuccs(_, _, _, _, _)
MergeSuccs(succs, i, exit_regs, bbr, q) ==
    IF i > Len(succs)
    THEN <<bbr, q>>
    ELSE LET s == succs[i] IN
         MergeSuccs(succs, i + 1, exit_regs,
                    [bbr EXCEPT ![s] = MergeSucc(bbr[s], exit_regs).regs],
                    IF MergeSucc(bbr[s], exit_regs).update THEN Append(q, s) ELSE q)

\* FreshRegs as a table that outlives the call: a table left by an earlier
\* call on the same flow chart is taken over
FreshRegsKept(fl) ==
    IF DOMAIN bb_regs = { fl[i].id : i \in 1 .. Len(fl) }
    THEN bb_regs
    ELSE [id \in { fl[i].id : i \in 1 .. Len(fl) } |-> EmptyMap]

\* line 131: bb_regs = { bb.id: {} for bb in flow }
FreshRegs(fl) == [id \in { fl[i].id : i \in 1 .. Len(fl) } |-> EmptyMap]

\* ReturnValue of a call that never returns the dictionary
ReturnValueNone(sk, acc) == NoResult

\* lines 223-225: the dictionary when the call created it, else None
ReturnValue(sk, acc) == IF sk THEN NoResult ELSE [none |-> FALSE, value |-> acc]

\* the addresses the initialization dictionary pins registers at
PinnedAt(fix, ea) == IF FixGet(fix, ea) = 0 THEN {} ELSE DOMAIN fix[FixGet(fix, ea)].regs

\* the observations of a dictionary, as <<offset, size, ea, delta>>
AllObs(acc) == UNION { { <<k[1], k[2], o[1], o[2]>> : o \in acc[k] } : k \in DOMAIN acc }

\* ------------------------------------------------------------------------
\* Actions
\* ------------------------------------------------------------------------

\* lines 215-221 with 36-46: the flow chart is created and, when the caller
\* gave no dictionary, a fresh one
CreateFlowOk ==
    /\ pc = "call"
    /\ function = "good"
    /\ bounds = "None"
    /\ flow' = image.blocks
    /\ accesses' = IF sink THEN accesses ELSE EmptyMap
    /\ bb_regs' = FreshRegs(image.blocks)
    /\ queue' = <<>>
    /\ seed_i' = 1
    /\ pc' = IF Len(initialization) = 0 THEN "loop" ELSE "seed"
    /\ UNCHANGED <<args, bb, regs, insn_pc, log, error, result, trace, first_obs, pass>>

\* lines 41-45: get_func() finds no function, or bounds were given: the
\* names func, start and end are not defined there
CreateFlowNameError ==
    /\ pc = "call"
    /\ (function = "bad" \/ bounds = "given")
    /\ error' = "NameError"
    /\ pc' = "raised"
    /\ UNCHANGED <<args, accesses, flow, bb_regs, queue, seed_i, bb, regs, insn_pc, log,
                   result, trace, first_obs, pass>>

\* line 46: idaapi.FlowChart(f=None, bounds=None) refuses to build a chart
CreateFlowRefused ==
    /\ pc = "call"
    /\ function = "None"
    /\ bounds = "None"
    /\ error' = "Exception"
    /\ pc' = "raised"
    /\ UNCHANGED <<args, accesses, flow, bb_regs, queue, seed_i, bb, regs, insn_pc, log,
                   result, trace, first_obs, pass>>

\* lines 134-138: the next initialization address lies in a block
SeedLocated ==
    /\ pc = "seed"
    /\ LocateBlock(flow, initialization[seed_i].ea) # NoBlock
    /\ queue' = Append(queue, LocateBlock(flow, initialization[seed_i].ea))
    /\ seed_i' = seed_i + 1
    /\ pc' = IF seed_i = Len(initialization) THEN "loop" ELSE "seed"
    /\ UNCHANGED <<args, accesses, flow, bb_regs, bb, regs, insn_pc, log, error, result,
                   trace, first_obs, pass>>

\* lines 134-140: the next initialization address lies in no block
SeedDropped ==
    /\ pc = "seed"
    /\ LocateBlock(flow, initialization[seed_i].ea) = NoBlock
    /\ log' = Append(log, initialization[seed_i].ea)
    /\ seed_i' = seed_i + 1
    /\ pc' = IF seed_i = Len(initialization) THEN "loop" ELSE "seed"
    /\ UNCHANGED <<args, accesses, flow, bb_regs, queue, bb, regs, insn_pc, error, result,
                   trace, first_obs, pass>>

\* PopLeft as the pop of a stack: queue.pop()
PopRight(q) == [item |-> q[Len(q)], rest |-> SubSeq(q, 1, Len(q) - 1)]

\* line 154: queue.popleft()
PopLeft(q) == [item |-> Head(q), rest |-> Tail(q)]

\* lines 153-155 and 53: pop the next block and copy its entry registers
PopBlock ==
    /\ pc = "loop"
    /\ queue # <<>>
    /\ bb' = PopLeft(queue).item
    /\ queue' = PopLeft(queue).rest
    /\ regs' = bb_regs[PopLeft(queue).item]
    /\ insn_pc' = BlockOf(PopLeft(queue).item).startEA
    /\ trace' = Append(trace, PopLeft(queue).item)
    /\ call_known' = {}
    /\ call_pinned' = {}
    /\ pc' = "block"
    /\ UNCHANGED <<args, accesses, flow, bb_regs, seed_i, log, error, result, first_obs, last>>

\* the instruction the decoder is at
CurInsn == DecodeInstruction(image.code, insn_pc)

\* the registers after lines 58-62 for the instruction the decoder is at
FixedRegs == ApplyFix(initialization, insn_pc, regs)

\* the instruction the decoder is at has not recorded anything before
FirstRecord == \A o \in first_obs : o[3] # insn_pc

\* RecordRegs as the registers after the instruction's own update: the
\* access loop placed after the update of lines 77-123
RecordRegsAfterUpdate(insn, fixed) == UpdateRegs(insn, fixed)

\* lines 64-75 run before lines 77-123: the access loop reads the registers
\* as the pins left them
RecordRegs(insn, fixed) == fixed

\* lines 53-124 with ida_utilities 159-168 as one pass: the loop over the
\* instructions from address a to the end of the block, from registers r
\* and with the observations obs so far; yields the exit registers, the
\* observations, and whether the decoder raised AlignmentError
RECURSIVE RunFrom(_, _, _, _, _, _)
RunFrom(code, fix, a, end, r, obs) ==
    IF a >= end \/ ~Decodes(code, a)
    THEN [regs |-> r, obs |-> obs, raised |-> FALSE]
    ELSE IF PastEnd(a + code[a].size, end)
    THEN [regs |-> r, obs |-> obs, raised |-> TRUE]
    ELSE LET fixed == ApplyFix(fix, a, r) IN
         RunFrom(code, fix, a + code[a].size, end, UpdateRegs(code[a], fixed),
                 obs \cup InsnAccesses(code[a], RecordRegs(code[a], fixed)))

\* _pointer_accesses_process_block(bb.startEA, bb.endEA, fix, entry_regs, ...)
ProcessBlock(code, fix, blk, entry_regs) ==
    RunFrom(code, fix, blk.startEA, blk.endEA, entry_regs, {})

\* a recognised MOV or ADD
Propagates(insn, r) == IsMov(insn, r) \/ IsAddImm(insn, r)

\* lines 54-123 with ida_utilities 160-168: one instruction of the block
ProcessInsn ==
    /\ pc = "block"
    /\ insn_pc < BlockOf(bb).endEA
    /\ Decodes(image.code, insn_pc)
    /\ ~PastEnd(insn_pc + CurInsn.size, BlockOf(bb).endEA)
    /\ accesses' = AddAccesses(accesses, InsnAccesses(CurInsn, RecordRegs(CurInsn, FixedRegs)))
    /\ regs' = UpdateRegs(CurInsn, FixedRegs)
    /\ insn_pc' = insn_pc + CurInsn.size
    /\ first_obs' = IF FirstRecord
                    THEN first_obs \cup InsnAccesses(CurInsn, RecordRegs(CurInsn, FixedRegs))
                    ELSE first_obs
    /\ call_known' = IF Propagates(CurInsn, FixedRegs)
                     THEN call_known \ { OpN(CurInsn, 1).reg }
                     ELSE IF IsCall(CurInsn)
                     THEN call_known \cup DOMAIN FixedRegs
                     ELSE call_known
    /\ call_pinned' = IF IsCall(CurInsn)
                      THEN {}
                      ELSE call_pinned \cup PinnedAt(initialization, insn_pc)
    /\ last' = [ea |-> insn_pc, regs |-> FixedRegs]
    /\ UNCHANGED <<args, flow, bb_regs, queue, pc, seed_i, bb, log, error, result, trace>>

\* ida_utilities 164-166: the instruction extends past the end of the block
AlignmentFailure ==
    /\ pc = "block"
    /\ insn_pc < BlockOf(bb).endEA
    /\ Decodes(image.code, insn_pc)
    /\ PastEnd(insn_pc + CurInsn.size, BlockOf(bb).endEA)
    /\ error' = "AlignmentError"
    /\ pc' = "raised"
    /\ UNCHANGED <<args, accesses, flow, bb_regs, queue, seed_i, bb, regs, insn_pc, log,
                   result, trace, first_obs, pass>>

\* lines 124 and 160-175: the block is exhausted (ida_utilities 160-163);
\* its exit registers are merged into its successors
FinishBlock ==
    /\ pc = "block"
    /\ insn_pc >= BlockOf(bb).endEA \/ ~Decodes(image.code, insn_pc)
    /\ LET m == MergeSuccs(BlockOf(bb).succs, 1, regs, bb_regs, queue) IN
          /\ bb_regs' = m[1]
          /\ queue' = m[2]
    /\ pc' = "loop"
    /\ UNCHANGED <<args, accesses, flow, seed_i, bb, regs, insn_pc, log, error, result,
                   trace, first_obs, pass>>

\* lines 153 and 223-225: the queue is empty, the call returns
Return ==
    /\ pc = "loop"
    /\ queue = <<>>
    /\ result' = ReturnValue(sink, accesses)
    /\ pc' = "returned"
    /\ UNCHANGED <<args, accesses, flow, bb_regs, queue, seed_i, bb, regs, insn_pc, log,
                   error, trace, first_obs, pass>>

\* ------------------------------------------------------------------------
\* The calls the model explores
\* ------------------------------------------------------------------------
ExactTails(n) == [i \in 1 .. n |-> "exact"]

\* two blocks over the core instructions, one of a single instruction, with
\* every successor relation
CoreImages ==
    { BuildImage(bodies, succs, ExactTails(2)) :
        bodies \in { b \in [1 .. 2 -> SeqsOf(CoreInsns, 1, MaxInsns)] :
                        Len(b[1]) = 1 \/ Len(b[2]) = 1 },
        succs \in [1 .. 2 -> SuccLists(2)] }

\* one block, alone or looping on itself, with at most one instruction that
\* is not a core instruction
LineImages ==
    { BuildImage(<<body>>, <<succ>>, ExactTails(1)) :
        body \in { c \in SeqsOf(LineInsns, 1, MaxInsns) :
                      Cardinality({ k \in 1 .. Len(c) : c[k] \notin CoreInsns }) <= 1 },
        succ \in { <<>>, <<0>> } }

\* two blocks whose ranges need not end on an instruction boundary
TailImages ==
    { BuildImage(<<<<Ldr(X1, X0, 8, "dt_qword"), AddImm(X0, X0, 8)>>,
                   <<Ldr(X1, X0, 8, "dt_qword")>>>>, succs, tails) :
        succs \in [1 .. 2 -> { <<>>, <<0>>, <<1>> }],
        tails \in [1 .. 2 -> { "exact", "short", "hole" }] }

\* the image the calls with other arguments are made on
PlainImage ==
    BuildImage(<<<<Ldr(X1, X0, 8, "dt_qword"), AddImm(X0, X0, 8)>>,
                 <<Ldr(X1, X0, 8, "dt_qword")>>>>, <<<<1>>, <<>>>>, ExactTails(2))

\* addresses an initialization key may name: the instructions of the image
\* and one address past every block
ImageEnd(im) == im.blocks[Len(im.blocks)].endEA
SeedAddrs(im) == (DOMAIN im.code) \cup { ImageEnd(im) + InsnSize }

\* the same, with the first instruction of each block only
StartAddrs(im) ==
    { im.blocks[i].startEA : i \in 1 .. Len(im.blocks) } \cup { ImageEnd(im) + InsnSize }

RegMap(r, v) == [x \in {r} |-> v]

\* the initialization dictionaries of at most n keys, in any iteration
\* order, whose register maps are drawn from M
InitDicts(im, M, n) ==
    { f \in SeqsOf([ea : SeedAddrs(im), regs : M], 0, n) :
        \A i, j \in 1 .. Len(f) : i # j => f[i].ea # f[j].ea }

\* the initialization dictionaries of at most n keys among the addresses A
\* that pin X0 to an offset particular to the address
AddrDicts(A, n) ==
    { f \in SeqsOf({ [ea |-> a, regs |-> RegMap(X0, InsnSize * a)] : a \in A }, 0, n) :
        \A i, j \in 1 .. Len(f) : i # j => f[i].ea # f[j].ea }

LineRegMaps ==
    { RegMap(X0, 144), RegMap(X0, WordMask - 7), RegMap(X19, 8), EmptyMap,
      [x \in {X0, X19} |-> IF x = X0 THEN 144 ELSE 8] }

\* dictionaries a caller may pass as the sink
SinkDicts ==
    { EmptyMap,
      [k \in { <<8, 8>>, <<152, 8>> } |-> IF k = <<8, 8>> THEN { <<64, 8>> } ELSE {}] }

InitWith(im, fn, bd, fix, sk, P) ==
    /\ image = im
    /\ function = fn
    /\ bounds = bd
    /\ initialization = fix
    /\ sink = sk
    /\ accesses = P
    /\ accesses0 = P
    /\ flow = <<>>
    /\ bb_regs = EmptyMap
    /\ queue = <<>>
    /\ pc = "call"
    /\ seed_i = 0
    /\ bb = NoBlock
    /\ regs = EmptyMap
    /\ insn_pc = 0
    /\ log = <<>>
    /\ error = "None"
    /\ result = NoResult
    /\ trace = <<>>
    /\ first_obs = {}
    /\ call_known = {}
    /\ call_pinned = {}
    /\ last = [ea |-> NoBlock, regs |-> EmptyMap]
    /\ runs = <<>>

Init ==
    \/ \E im \in CoreImages : \E fix \in AddrDicts(StartAddrs(im), MaxSeeds) :
          InitWith(im, "good", "None", fix, FALSE, EmptyMap)
    \/ \E im \in LineImages : \E fix \in InitDicts(im, LineRegMaps, 1) :
          \/ InitWith(im, "good", "None", fix, FALSE, EmptyMap)
          \/ \E P \in SinkDicts : InitWith(im, "good", "None", fix, TRUE, P)
    \/ \E im \in TailImages : \E fix \in AddrDicts(SeedAddrs(im), 2) :
          InitWith(im, "good", "None", fix, FALSE, EmptyMap)
    \/ \E fn \in {"None", "good", "bad"} : \E bd \in {"None", "given"} :
          \E fix \in AddrDicts(StartAddrs(PlainImage), 1) :
             \/ InitWith(PlainImage, fn, bd, fix, FALSE, EmptyMap)
             \/ \E P \in SinkDicts : InitWith(PlainImage, fn, bd, fix, TRUE, P)

Next ==
    \/ CreateFlowOk
    \/ CreateFlowNameError
    \/ CreateFlowRefused
    \/ SeedLocated
    \/ SeedDropped
    \/ PopBlock
    \/ ProcessInsn
    \/ AlignmentFailure
    \/ FinishBlock
    \/ Return

Spec == Init /\ [][Next]_vars

\* Every step of a call is taken as soon as it can be: the call is one
\* synchronous thread of control.
FairSpec == Spec /\ WF_vars(Next)

\* ------------------------------------------------------------------------
\* A second call of pointer_accesses() on the same image, after the first
\* has returned: with the same arguments ("same"), without the keys of
\* initialization that lie in no block ("located"), or without the sink
\* ("nosink").  The locals of the first call are dead; the second call
\* builds its own.
\* ------------------------------------------------------------------------
LocatedKeys(fl, fix) == SelectSeq(fix, LAMBDA item : LocateBlock(fl, item.ea) # NoBlock)

CallAgain(kind) ==
    /\ pc = "returned"
    /\ runs = <<>>
    /\ \/ kind = "same" /\ ~sink
       \/ kind = "located" /\ ~sink /\ LocatedKeys(flow, initialization) # initialization
       \/ kind = "nosink" /\ sink
    /\ runs' = <<[kind |-> kind, result |-> result, accesses |-> accesses,
                  accesses0 |-> accesses0, log |-> log, trace |-> trace]>>
    /\ initialization' = IF kind = "located"
                         THEN LocatedKeys(flow, initialization)
                         ELSE initialization
    /\ sink' = FALSE
    /\ accesses' = EmptyMap
    /\ accesses0' = EmptyMap
    /\ log' = <<>>
    /\ error' = "None"
    /\ result' = NoResult
    /\ trace' = <<>>
    /\ first_obs' = {}
    /\ pc' = "call"
    /\ UNCHANGED <<image, function, bounds, flow, bb_regs, queue, seed_i, bb, regs,
                   insn_pc, pass>>

NextRerun ==
    \/ Next
    \/ \E kind \in {"same", "located", "nosink"} : CallAgain(kind)

SpecRerun == Init /\ [][NextRerun]_vars

\* ------------------------------------------------------------------------
\* Vocabulary of the properties
\* ------------------------------------------------------------------------
SuccSet(fl, b) == { fl[b + 1].succs[i] : i \in 1 .. Len(fl[b + 1].succs) }

RECURSIVE ReachWithin(_, _, _)
ReachWithin(fl, S, n) ==
    IF n = 0 THEN S
    ELSE ReachWithin(fl, S \cup UNION { SuccSet(fl, b) : b \in S }, n - 1)

\* the blocks reachable from b along one or more successor edges
ReachableFrom(fl, b) == ReachWithin(fl, SuccSet(fl, b), Len(fl))

\* b lies on a cycle of the flow chart
OnCycle(fl, b) == b \in ReachableFrom(fl, b)

BlockIds(fl) == { fl[i].id : i \in 1 .. Len(fl) }

\* the instructions of block b of the image, by address
InsnsOf(im, b) ==
    { im.code[a] : a \in { x \in DOMAIN im.code :
                              im.blocks[b + 1].startEA <= x /\ x < im.blocks[b + 1].endEA } }

\* how often block b was popped
Passes(b) == Cardinality({ i \in 1 .. Len(trace) : trace[i] = b })

Running == pc \in {"seed", "loop", "block"}

\* ------------------------------------------------------------------------
\* C1.  Termination: whatever the flow chart (cycles and self-loops
\* included) and the initialization dictionary, the number of blocks popped
\* and still queued never exceeds the number of initialization keys plus the
\* number of (block, register) pairs present in the entry-state table, which
\* is at most (blocks x registers); the decoder never leaves its block; and
\* a call that has not ended can always take its next step.  So the queue
\* drains after finitely many block processings.
\* ------------------------------------------------------------------------
RECURSIVE SumOver(_, _)
SumOver(f, S) ==
    IF S = {} THEN 0
    ELSE LET x == CHOOSE y \in S : TRUE IN f[x] + SumOver(f, S \ {x})

\* the number of (block, register) pairs present in the entry-state table
EntryPairs == SumOver([b \in DOMAIN bb_regs |-> Cardinality(DOMAIN bb_regs[b])], DOMAIN bb_regs)

C1_Terminates ==
    /\ Running =>
          /\ Len(trace) + Len(queue) <= Len(initialization) + EntryPairs
          /\ \A b \in DOMAIN bb_regs : DOMAIN bb_regs[b] \subseteq Regs
          /\ pc = "block" => insn_pc <= BlockOf(bb).endEA + InsnSize
    /\ pc \in {"call", "seed", "loop", "block"} => ENABLED Next
    /\ pc = "returned" => queue = <<>>

\* the same, as the liveness property of a call whose steps are taken
C1_Live == <>(pc = "returned" \/ pc = "raised")

\* a call returned after it had popped a block of a cycle more than once
C1_Witness ==
    /\ pc = "returned"
    /\ queue = <<>>
    /\ \E b \in BlockIds(flow) : OnCycle(flow, b) /\ Passes(b) >= 2

\* ------------------------------------------------------------------------
\* C2.  First-wins: once register r is in the entry registers of block b
\* with offset v, it stays there with offset v for the rest of the call.
\* ------------------------------------------------------------------------
C2_FirstWins ==
    [][ Running =>
          \A b \in DOMAIN bb_regs : \A r \in DOMAIN bb_regs[b] :
              /\ b \in DOMAIN bb_regs'
              /\ r \in DOMAIN bb_regs'[b]
              /\ bb_regs'[b][r] = bb_regs[b][r] ]_vars

\* a block has just been merged into a successor that already held one of
\* its exit registers with another offset
C2_Witness ==
    /\ pc = "loop"
    /\ bb # NoBlock
    /\ \E s \in SuccSet(flow, bb) : \E r \in (DOMAIN regs) \cap (DOMAIN bb_regs[s]) :
          regs[r] # bb_regs[s][r]

\* ------------------------------------------------------------------------
\* C3.  Incrementing loop: when a block of a cycle adds an immediate to a
\* tracked register, whatever addresses the initialization names, the
\* dictionary of a call without sink holds for each instruction only what
\* that instruction recorded the first time it recorded anything; the
\* offsets that later trips over the back edge would produce never appear.
\* ------------------------------------------------------------------------
\* ADD Xr, Xr, #imm
IsIncrement(insn) ==
    /\ insn.itype = "ARM_add"
    /\ OpN(insn, 1).type = "o_reg"
    /\ OpN(insn, 2).type = "o_reg"
    /\ OpN(insn, 3).type = "o_imm"
    /\ OpN(insn, 1).reg = OpN(insn, 2).reg
    /\ OpN(insn, 3).value # 0

\* the blocks of a cycle that increment a register
IncrementingBlocks(im) ==
    { b \in BlockIds(im.blocks) :
        OnCycle(im.blocks, b) /\ \E i \in InsnsOf(im, b) : IsIncrement(i) }

C4_EveryRegisterCleared ==
    pc \in {"block", "loop"} => call_known \cap DOMAIN regs = {}

\* X0 .. X18
Temporaries == 0 .. 18

\* the temporaries known at a call of this pass that neither a recognised
\* MOV or ADD nor a pin has re-established
ClearedByCall == (call_known \cap Temporaries) \ call_pinned

\* C4, amended: every temporary register (X0 to X18) that had a known offset
\* when a call was processed is unknown at every later instruction of the
\* same pass over the block and in the exit registers the pass merges into
\* the successors, unless a later recognised MOV or ADD, or a pin of
\* initialization at a later instruction, re-established it; the merge of
\* that pass adds no such register to a successor.
C4_TemporariesCleared ==
    [][ /\ pc' \in {"block", "loop"} => ClearedByCall' \cap DOMAIN regs' = {}
        /\ (pc = "block" /\ pc' = "loop") =>
              \A s \in DOMAIN bb_regs : \A r \in ClearedByCall :
                  r \in DOMAIN bb_regs'[s] => r \in DOMAIN bb_regs[s] ]_vars

\* a load through X0 was processed after a call had cleared X0
C4_Witness ==
    /\ pc \in {"block", "loop"}
    /\ X0 \in ClearedByCall
    /\ last.ea \in DOMAIN image.code
    /\ ~IsCall(image.code[last.ea])
    /\ \E j \in VisitedOps(image.code[last.ea]) :
          /\ image.code[last.ea].Ops[j].type = "o_displ"
          /\ image.code[last.ea].Ops[j].reg = X0

\* ------------------------------------------------------------------------
\* C5.  Write-back exclusion: processing an instruction with the write-back
\* flag whose memory operand has a base register with known offset
\* (propagated or pinned at that instruction) records nothing and leaves the
\* base register without offset.
\* ------------------------------------------------------------------------
\* the base registers of the memory operands of insn that r knows
KnownBases(insn, r) ==
    { insn.Ops[j].reg : j \in { k \in VisitedOps(insn) :
                                   /\ insn.Ops[k].type = "o_displ"
                                   /\ insn.Ops[k].reg \in DOMAIN r } }

C5_WritebackExclusion ==
    [][ ( /\ pc = "block"
          /\ insn_pc' # insn_pc
          /\ Decodes(image.code, insn_pc)
          /\ image.code[insn_pc].writeback
          /\ KnownBases(image.code[insn_pc], FixedRegs) # {} )
        => /\ accesses' = accesses
           /\ KnownBases(image.code[insn_pc], FixedRegs) \cap DOMAIN regs' = {} ]_vars

\* a write-back instruction has just been processed whose base register had
\* a propagated offset
C5_Witness ==
    /\ pc = "block"
    /\ last.ea \in DOMAIN image.code
    /\ insn_pc = last.ea + InsnSize
    /\ image.code[last.ea].writeback
    /\ KnownBases(image.code[last.ea], last.regs) # {}
    /\ PinnedAt(initialization, last.ea) = {}

\* ------------------------------------------------------------------------
\* C6.  One straight-line block whose first instruction is pinned with
\* R = O and is the only memory access of the block, a load without
\* write-back of recognised size s from [R + d]: the call without sink
\* returns exactly the key ((O + d) mod 2^w, s) with the observation set
\* {(address of the load, O)}.
\* ------------------------------------------------------------------------
HasDispl(insn) == \E j \in VisitedOps(insn) : insn.Ops[j].type = "o_displ"

\* the block is the only one, has no successor, is pinned at its first
\* instruction only, and that instruction is its only memory access
SingleLoadCase ==
    /\ Len(image.blocks) = 1
    /\ image.blocks[1].succs = <<>>
    /\ ~sink
    /\ Len(initialization) = 1
    /\ initialization[1].ea = image.blocks[1].startEA
    /\ LET ld == image.code[image.blocks[1].startEA] IN
          /\ ld.itype = "ARM_ldr"
          /\ ~ld.writeback
          /\ ld.Ops[2].type = "o_displ"
          /\ ld.Ops[2].dtyp \in DOMAIN INSN_OP_DTYP_SZ
          /\ ld.Ops[2].reg \in DOMAIN initialization[1].regs
    /\ \A a \in DOMAIN image.code : a # image.blocks[1].startEA => ~HasDispl(image.code[a])

C6_SingleLoad ==
    (pc = "returned" /\ SingleLoadCase) =>
        LET ld == image.code[image.blocks[1].startEA]
            O == initialization[1].regs[ld.Ops[2].reg]
            key == <<(O + ld.Ops[2].addr) % (2 ^ WordBits), INSN_OP_DTYP_SZ[ld.Ops[2].dtyp]>>
        IN /\ ~result.none
           /\ DOMAIN result.value = { key }
           /\ result.value[key] = { <<ld.ea, O>> }

\* the instance R = 144, load of 8 bytes from [R + 8]
C6_Witness ==
    /\ pc = "returned"
    /\ SingleLoadCase
    /\ DOMAIN result.value = { <<152, 8>> }
    /\ result.value[<<152, 8>>] = { <<0, 144>> }

\* ------------------------------------------------------------------------
\* C7.  With an empty initialization dictionary and no sink, no block is
\* processed and the call returns a dictionary without keys.
\* ------------------------------------------------------------------------
C7_EmptyInitialization ==
    (Len(initialization) = 0 /\ ~sink /\ runs = <<>>) =>
        /\ trace = <<>>
        /\ pc = "returned" => (~result.none /\ DOMAIN result.value = {})

\* such a call returned, on a flow chart with a cycle
C7_Witness ==
    /\ pc = "returned"
    /\ Len(initialization) = 0
    /\ ~sink
    /\ \E b \in BlockIds(flow) : OnCycle(flow, b)

\* ------------------------------------------------------------------------
\* C8.  A key of initialization whose address lies in no block's
\* [start, end) is reported once and dropped: nothing is enqueued for it,
\* no exception is raised for it, and the call proceeds as the call without
\* that key does; when no key lies in a block the call returns an empty
\* dictionary.
\* ------------------------------------------------------------------------
InNoBlock(fl, ea) == \A i \in 1 .. Len(fl) : ~(fl[i].startEA <= ea /\ ea < fl[i].endEA)

\* the first n keys of initialization
KeysUpTo(n) == [i \in 1 .. n |-> initialization[i].ea]

\* how many keys seeding has gone through
Seeded == IF pc = "seed" THEN seed_i - 1 ELSE Len(initialization)

C8_UnresolvedSeedDropped ==
    /\ pc \in {"seed", "loop", "block", "returned"} =>
          /\ log = SelectSeq(KeysUpTo(Seeded), LAMBDA ea : InNoBlock(flow, ea))
          /\ Len(trace) + Len(queue) >=
                Len(SelectSeq(KeysUpTo(Seeded), LAMBDA ea : ~InNoBlock(flow, ea)))
          /\ trace = <<>> =>
                Len(queue) = Len(SelectSeq(KeysUpTo(Seeded), LAMBDA ea : ~InNoBlock(flow, ea)))
    /\ pc = "raised" => (error = "AlignmentError" \/ function # "good" \/ bounds # "None")
    /\ (pc = "returned" /\ runs # <<>> /\ runs[1].kind = "located") =>
          /\ result = runs[1].result
          /\ trace = runs[1].trace
    /\ (pc = "returned" /\ ~sink /\ \A i \in 1 .. Len(initialization) :
                                        InNoBlock(flow, initialization[i].ea)) =>
          /\ ~result.none
          /\ DOMAIN result.value = {}

\* a call with a key in no block reported it, went on to record accesses,
\* and the call without that key has returned too
C8_Witness ==
    /\ pc = "returned"
    /\ runs # <<>>
    /\ runs[1].kind = "located"
    /\ Len(runs[1].log) = 1
    /\ DOMAIN runs[1].result.value # {}
    /\ trace # <<>>

SetAt(acc, k) == IF k \in DOMAIN acc THEN acc[k] ELSE {}

C10_SinkAccumulates ==
    /\ (pc = "returned" /\ runs # <<>> /\ runs[1].kind = "nosink") =>
          LET P == runs[1].accesses0
              A == runs[1].accesses
              F == result.value
          IN /\ runs[1].result.none
             /\ ~result.none
             /\ DOMAIN A = (DOMAIN P) \cup (DOMAIN F)
             /\ \A k \in DOMAIN A : A[k] = SetAt(P, k) \cup SetAt(F, k)
    /\ (sink /\ pc \in {"seed", "loop", "block", "returned"}) =>
          \A k \in DOMAIN accesses0 : k \in DOMAIN accesses /\ accesses0[k] \subseteq accesses[k]

\* the sink held a key that the call recorded other observations under
C10_Witness ==
    /\ pc = "returned"
    /\ runs # <<>>
    /\ runs[1].kind = "nosink"
    /\ \E k \in (DOMAIN runs[1].accesses0) \cap (DOMAIN result.value) :
          /\ runs[1].accesses0[k] # {}
          /\ ~(result.value[k] \subseteq runs[1].accesses0[k])

\* ------------------------------------------------------------------------
\* C11.  Pin precedence: whenever an instruction at a key a of
\* initialization is processed, whatever the registers held before, each
\* register r of initialization[a] counts with the offset initialization[a][r]
\* in what the instruction records (the observation through r is made under
\* the key (that offset + displacement, size) with that offset as delta, and
\* no new observation at a through r carries another delta) and in its
\* register update (a MOV or ADD from r propagates that offset, and r keeps
\* it unless the instruction writes r).
\* ------------------------------------------------------------------------
\* initialization[ea][r]
PinOf(fix, ea, r) == fix[FixGet(fix, ea)].regs[r]

\* the registers insn writes: the destination of a MOV or ADD, the
\* temporaries at a call, the base of a write-back operand
Written(insn) ==
    (IF insn.itype \in {"ARM_mov", "ARM_add", "ARM_ldr"} THEN { OpN(insn, 1).reg } ELSE {})
        \cup (IF insn.itype \in {"ARM_bl", "ARM_blr"} THEN 0 .. 18 ELSE {})
        \cup (IF insn.writeback
              THEN { insn.Ops[j].reg : j \in { k \in VisitedOps(insn) :
                                                  insn.Ops[k].type = "o_displ" } }
              ELSE {})

C11_PinPrecedence ==
    [][ (pc = "block" /\ insn_pc' # insn_pc /\ Decodes(image.code, insn_pc)) =>
          \A r \in PinnedAt(initialization, insn_pc) :
             LET v == PinOf(initialization, insn_pc, r)
                 insn == image.code[insn_pc]
             IN /\ \A j \in VisitedOps(insn) :
                      (insn.Ops[j].type = "o_displ" /\ insn.Ops[j].reg = r) =>
                         /\ \A o \in AllObs(accesses') \ AllObs(accesses) :
                               o[3] = insn_pc => o[4] = v
                         /\ (~insn.writeback /\ insn.Ops[j].dtyp \in DOMAIN INSN_OP_DTYP_SZ) =>
                               <<(v + insn.Ops[j].addr) % (2 ^ WordBits),
                                 INSN_OP_DTYP_SZ[insn.Ops[j].dtyp], insn_pc, v>>
                                   \in AllObs(accesses')
                /\ r \notin Written(insn) => (r \in DOMAIN regs' /\ regs'[r] = v)
                /\ (/\ insn.itype \in {"ARM_mov", "ARM_add"}
                    /\ Len(insn.Ops) >= 2
                    /\ insn.Ops[2].type = "o_reg"
                    /\ insn.Ops[2].reg = r
                    /\ OpN(insn, 1).reg \in DOMAIN regs')
                      => regs'[OpN(insn, 1).reg] = v + OpN(insn, 3).value ]_vars

\* the first instruction of a block has just recorded an access through a
\* register it is pinned at, with the pinned offset as delta, while the
\* entry registers of the block hold another offset for that register
C11_Witness ==
    /\ pc = "block"
    /\ last.ea = BlockOf(bb).startEA
    /\ insn_pc = last.ea + InsnSize
    /\ \E r \in PinnedAt(initialization, last.ea) \cap DOMAIN bb_regs[bb] :
          /\ bb_regs[bb][r] # PinOf(initialization, last.ea, r)
          /\ \E j \in VisitedOps(image.code[last.ea]) :
                /\ image.code[last.ea].Ops[j].type = "o_displ"
                /\ image.code[last.ea].Ops[j].reg = r
          /\ \E o \in AllObs(accesses) :
                o[3] = last.ea /\ o[4] = PinOf(initialization, last.ea, r)

\* ------------------------------------------------------------------------
\* C12.  Offsets wrap modulo the word: with every pin inside [0, 2^w), no
\* register state (of the block in progress or of a block entry) and no key
\* of the accesses dictionary holds an offset outside [0, 2^w).
\* ------------------------------------------------------------------------
InWord(x) == 0 <= x /\ x < 2 ^ WordBits

PinsInWord ==
    \A i \in 1 .. Len(initialization) : \A r \in DOMAIN initialization[i].regs :
        InWord(initialization[i].regs[r])

C12_OffsetsWrap ==
    (PinsInWord /\ \A k \in DOMAIN accesses0 : InWord(k[1])) =>
        /\ \A r \in DOMAIN regs : InWord(regs[r])
        /\ \A b \in DOMAIN bb_regs : \A r \in DOMAIN bb_regs[b] : InWord(bb_regs[b][r])
        /\ \A k \in DOMAIN accesses : InWord(k[1])

\* ------------------------------------------------------------------------
\* C13.  Seeding enqueues each located block exactly once: after seeding and
\* before the first pop, a block that contains an address of initialization
\* occurs exactly once in the queue, however many addresses it contains, and
\* a block that contains none does not occur in it.
\* ------------------------------------------------------------------------
\* how often block b occurs in the queue q
Occurrences(q, b) == Cardinality({ i \in 1 .. Len(q) : q[i] = b })

\* block b of the flow chart contains an address of initialization
HoldsKey(fl, fix, b) ==
    \E i \in 1 .. Len(fix) : fl[b + 1].startEA <= fix[i].ea /\ fix[i].ea < fl[b + 1].endEA

C13_SeededExactlyOnce ==
    (pc = "loop" /\ trace = <<>>) =>
        \A b \in BlockIds(flow) :
            Occurrences(queue, b) = IF HoldsKey(flow, initialization, b) THEN 1 ELSE 0

\* ------------------------------------------------------------------------
\* C14.  Configuration error: a call that supplies both function and bounds,
\* or neither, ends without result, without processing a block and with the
\* sink as it was; a call that supplies exactly one of them (a function that
\* resolves, or bounds) is accepted and gets the flow chart of its target.
\* ------------------------------------------------------------------------
Supplied(arg) == arg # "None"

\* the call has ended without a result, having done nothing
Rejected ==
    /\ pc \in {"returned", "raised"}
    /\ result.none
    /\ trace = <<>>
    /\ accesses = accesses0

\* the call went past the creation of the flow chart, with that of the image
Accepted ==
    /\ error \notin {"NameError", "Exception"}
    /\ flow = image.blocks

C14_ConfigurationError ==
    pc # "call" =>
        /\ (Supplied(function) = Supplied(bounds)) => Rejected
        /\ (function = "good" /\ ~Supplied(bounds)) => Accepted
        /\ (~Supplied(function) /\ Supplied(bounds)) => Accepted

\* ------------------------------------------------------------------------
\* C15.  CFG build failure: a call whose function address resolves to no
\* function returns None, having run no data flow, processed no block and
\* left the sink as it was.
\* ------------------------------------------------------------------------
C15_BuildFailureReturnsNone ==
    (function = "bad" /\ ~Supplied(bounds) /\ pc # "call") =>
        /\ pc = "returned"
        /\ error = "None"
        /\ result.none
        /\ trace = <<>>
        /\ queue = <<>>
        /\ accesses = accesses0

\* ------------------------------------------------------------------------
\* C16.  Alignment failure aborts the analysis: when the decoder of a block
\* is at an instruction that extends past the block's end, the next step
\* raises AlignmentError without merging into any successor, without
\* queueing or popping a block and without recording; after the failure the
\* call takes no further step, so no block is processed and nothing is
\* returned.
\* ------------------------------------------------------------------------
\* the decoder is at an instruction that extends past the end of its block
Misaligned ==
    /\ pc = "block"
    /\ insn_pc < BlockOf(bb).endEA
    /\ insn_pc \in DOMAIN image.code
    /\ insn_pc + image.code[insn_pc].size > BlockOf(bb).endEA

C16_AlignmentFailureAborts ==
    [][ /\ Misaligned =>
              /\ pc' = "raised"
              /\ error' = "AlignmentError"
              /\ bb_regs' = bb_regs
              /\ queue' = queue
              /\ trace' = trace
              /\ accesses' = accesses
              /\ result'.none
        /\ error # "AlignmentError"
        /\ error' = "AlignmentError" => Misaligned ]_vars

\* the failure was raised in the second instruction of a block while
\* another block was still queued and the failing block has a successor
C16_Witness ==
    /\ pc = "raised"
    /\ error = "AlignmentError"
    /\ insn_pc > BlockOf(bb).startEA
    /\ queue # <<>>
    /\ BlockOf(bb).succs # <<>>
    /\ result.none

\* ------------------------------------------------------------------------
\* C17.  Merge step: when block b has been processed with exit registers E,
\* the entry registers of each successor s become the old ones extended
\* with r -> E[r] for exactly the registers of E the old ones lack; the
\* successors that gained a register are appended to the queue, in the
\* order of bb.succs(), and no other block is; the entry registers of every
\* block that is not a successor of b are unchanged.
\* ------------------------------------------------------------------------
\* the registers of E that the entry registers old lack
Gained(old, E) == { r \in DOMAIN E : r \notin DOMAIN old }

C17_MergeStep ==
    [][ (pc = "block" /\ pc' = "loop") =>
          /\ \A s \in SuccSet(flow, bb) :
                /\ DOMAIN bb_regs'[s] = (DOMAIN bb_regs[s]) \cup Gained(bb_regs[s], regs)
                /\ \A r \in DOMAIN bb_regs[s] : bb_regs'[s][r] = bb_regs[s][r]
                /\ \A r \in Gained(bb_regs[s], regs) : bb_regs'[s][r] = regs[r]
          /\ queue' = queue \o SelectSeq(BlockOf(bb).succs,
                                          LAMBDA s : Gained(bb_regs[s], regs) # {})
          /\ \A t \in (DOMAIN bb_regs) \ SuccSet(flow, bb) : bb_regs'[t] = bb_regs[t]
          /\ DOMAIN bb_regs' = DOMAIN bb_regs ]_vars

\* a block with two successors has just been merged: one successor gained a
\* register and was queued, the other held all of them and was not
C17_Witness ==
    /\ pc = "loop"
    /\ bb # NoBlock
    /\ Len(BlockOf(bb).succs) = 2
    /\ DOMAIN regs # {}
    /\ queue # <<>>
    /\ queue[Len(queue)] \in SuccSet(flow, bb)
    /\ \E t \in SuccSet(flow, bb) :
          /\ \A i \in 1 .. Len(queue) : queue[i] # t
          /\ DOMAIN regs \subseteq DOMAIN bb_regs[t]
          /\ \E r \in DOMAIN regs : bb_regs[t][r] # regs[r]

\* ------------------------------------------------------------------------
\* C18.  FIFO order: the blocks popped so far followed by the blocks still
\* queued are the blocks in the order they were enqueued.  Every step of a
\* call either leaves that sequence alone or appends to it, a pop moves the
\* head of the queue to the end of the popped blocks, and seeding enqueues
\* the blocks of the located keys in the enumeration order of the keys; so
\* the seeded blocks are processed first, in key order, then the successors
\* in the order their merges enqueued them, and no block overtakes one
\* enqueued before it.
\* ------------------------------------------------------------------------
IsPrefix(p, q) == Len(p) <= Len(q) /\ SubSeq(q, 1, Len(p)) = p

\* the blocks of the first n keys that lie in a block, in key order
SeededBlocks(n) ==
    LET located == SelectSeq(KeysUpTo(n), LAMBDA ea : ~InNoBlock(flow, ea))
    IN [i \in 1 .. Len(located) |->
           flow[CHOOSE b \in 1 .. Len(flow) :
                   /\ flow[b].startEA <= located[i] /\ located[i] < flow[b].endEA
                   /\ \A c \in 1 .. b - 1 :
                         ~(flow[c].startEA <= located[i] /\ located[i] < flow[c].endEA)].id]

C18_FifoOrder ==
    [][ Running =>
          /\ IsPrefix(trace \o queue, trace' \o queue')
          /\ IsPrefix(trace, trace')
          /\ Len(trace') <= Len(trace) + 1
          /\ trace' # trace => Len(trace' \o queue') = Len(trace \o queue)
          /\ pc' = "seed" => trace' \o queue' = SeededBlocks(seed_i' - 1)
          /\ (pc = "seed" /\ pc' = "loop") =>
                trace' \o queue' = SeededBlocks(Len(initialization)) ]_vars

\* a call with two keys in two different blocks returned after it had
\* popped the two seeded blocks in the order of the keys and then at least
\* one re-enqueued successor
C18_Witness ==
    /\ pc = "returned"
    /\ Len(trace) >= 3
    /\ \E i \in 1 .. Len(trace) - 1 : trace[i] # trace[i + 1]
    /\ Len(initialization) = 2
    /\ trace[1] # trace[2]
    /\ LocateBlock(flow, initialization[1].ea) = trace[1]
    /\ LocateBlock(flow, initialization[2].ea) = trace[2]

\* ------------------------------------------------------------------------
\* C19.  Move rule: processing a two-operand register-to-register MOV whose
\* registers are both full-width and whose source has offset O (after the
\* pins of the instruction) gives the destination offset O, whatever it had,
\* and leaves every other register as it was; when the source has no offset
\* or a register is not full-width, the destination has no offset afterwards
\* and every other register is as it was.
\* ------------------------------------------------------------------------
\* insn is MOV dst, src with two register operands
MovRegReg(insn) ==
    /\ insn.itype = "ARM_mov"
    /\ Len(insn.Ops) = 2
    /\ insn.Ops[1].type = "o_reg"
    /\ insn.Ops[2].type = "o_reg"

FullWidth(op) == op.dtyp = "dt_qword"

\* the register maps a and b agree on every register but r
SameBut(a, b, r) ==
    /\ (DOMAIN a) \ {r} = (DOMAIN b) \ {r}
    /\ \A x \in (DOMAIN a) \ {r} : a[x] = b[x]

C19_MoveRule ==
    [][ (/\ pc = "block"
         /\ insn_pc' # insn_pc
         /\ insn_pc \in DOMAIN image.code
         /\ MovRegReg(image.code[insn_pc])) =>
          LET insn == image.code[insn_pc]
              dst == insn.Ops[1].reg
              src == insn.Ops[2].reg
              before == last'.regs
          IN /\ SameBut(before, regs', dst)
             /\ IF FullWidth(insn.Ops[1]) /\ FullWidth(insn.Ops[2]) /\ src \in DOMAIN before
                THEN dst \in DOMAIN regs' /\ regs'[dst] = before[src]
                ELSE dst \notin DOMAIN regs' ]_vars

\* a full-width MOV has just replaced the offset its destination had by
\* the different offset of its source
C19_Witness ==
    /\ pc = "block"
    /\ last.ea \in DOMAIN image.code
    /\ insn_pc = last.ea + InsnSize
    /\ MovRegReg(image.code[last.ea])
    /\ FullWidth(image.code[last.ea].Ops[1])
    /\ LET dst == image.code[last.ea].Ops[1].reg
           src == image.code[last.ea].Ops[2].reg
       IN /\ src \in DOMAIN last.regs
          /\ dst \in DOMAIN last.regs
          /\ last.regs[dst] # last.regs[src]
          /\ regs[dst] = last.regs[src]

\* ------------------------------------------------------------------------
\* C20.  Add-immediate rule: processing ADD dst, src, #imm with full-width
\* dst and src whose source has offset O (after the pins of the instruction)
\* gives the destination offset O + imm, also when dst and src are the same
\* register, and leaves every other register as it was; when the source has
\* no offset, or the third operand is a register, the destination has no
\* offset afterwards and every other register is as it was.
\* ------------------------------------------------------------------------
\* insn is ADD dst, src, x with full-width registers dst and src
AddRegReg(insn) ==
    /\ insn.itype = "ARM_add"
    /\ Len(insn.Ops) = 3
    /\ insn.Ops[1].type = "o_reg"
    /\ insn.Ops[2].type = "o_reg"
    /\ FullWidth(insn.Ops[1])
    /\ FullWidth(insn.Ops[2])
    /\ insn.Ops[3].type \in {"o_imm", "o_reg"}

C20_AddImmediateRule ==
    [][ (/\ pc = "block"
         /\ insn_pc' # insn_pc
         /\ insn_pc \in DOMAIN image.code
         /\ AddRegReg(image.code[insn_pc])) =>
          LET insn == image.code[insn_pc]
              dst == insn.Ops[1].reg
              src == insn.Ops[2].reg
              before == last'.regs
          IN /\ SameBut(before, regs', dst)
             /\ IF insn.Ops[3].type = "o_imm" /\ src \in DOMAIN before
                THEN dst \in DOMAIN regs' /\ regs'[dst] = before[src] + insn.Ops[3].value
                ELSE dst \notin DOMAIN regs' ]_vars

\* an ADD of an immediate to a register in place has just moved its offset
C20_Witness ==
    /\ pc = "block"
    /\ last.ea \in DOMAIN image.code
    /\ insn_pc = last.ea + InsnSize
    /\ AddRegReg(image.code[last.ea])
    /\ image.code[last.ea].Ops[3].type = "o_imm"
    /\ image.code[last.ea].Ops[1].reg = image.code[last.ea].Ops[2].reg
    /\ LET dst == image.code[last.ea].Ops[1].reg
       IN /\ dst \in DOMAIN last.regs
          /\ dst \in DOMAIN regs
          /\ regs[dst] = last.regs[dst] + image.code[last.ea].Ops[3].value
          /\ regs[dst] # last.regs[dst]

\* ------------------------------------------------------------------------
\* C21.  Frame of the call rule: processing BL or BLR removes the offsets of
\* exactly the registers X0 .. X18 and leaves every other register (X19 and
\* above) with the offset it had after the pins of the instruction.
\* ------------------------------------------------------------------------
C21_CallFrame ==
    [][ (/\ pc = "block"
         /\ insn_pc' # insn_pc
         /\ insn_pc \in DOMAIN image.code
         /\ image.code[insn_pc].itype \in {"ARM_bl", "ARM_blr"}) =>
          LET before == last'.regs IN
          /\ DOMAIN regs' = { r \in DOMAIN before : r > 18 }
          /\ \A r \in DOMAIN regs' : regs'[r] = before[r] ]_vars

\* a call has just been processed with X0 and X19 known: X0 lost its
\* offset, X19 kept it
C21_Witness ==
    /\ pc = "block"
    /\ last.ea \in DOMAIN image.code
    /\ insn_pc = last.ea + InsnSize
    /\ image.code[last.ea].itype \in {"ARM_bl", "ARM_blr"}
    /\ X0 \in DOMAIN last.regs
    /\ X19 \in DOMAIN last.regs
    /\ X0 \notin DOMAIN regs
    /\ X19 \in DOMAIN regs
    /\ regs[X19] = last.regs[X19]

\* ------------------------------------------------------------------------
\* C22.  Invalidation rule: processing an instruction that is not a
\* recognised MOV, a recognised ADD of an immediate or a call removes the
\* offsets of exactly its plain-register operands flagged as written and,
\* when its write-back flag is set, of the base registers of its
\* memory-reference operands; every other register keeps the offset it had
\* after the pins, and no register gains one.
\* ------------------------------------------------------------------------
\* the plain-register operands of insn flagged as written
FlaggedWritten(insn) ==
    { insn.Ops[j].reg : j \in { k \in 1 .. Len(insn.Ops) :
                                   insn.Ops[k].type = "o_reg" /\ (k - 1) \in insn.feature } }

\* the base registers of the memory-reference operands of insn
Bases(insn) ==
    { insn.Ops[j].reg : j \in { k \in 1 .. Len(insn.Ops) : insn.Ops[k].type = "o_displ" } }

C22_InvalidationRule ==
    [][ (/\ pc = "block"
         /\ insn_pc' # insn_pc
         /\ insn_pc \in DOMAIN image.code
         /\ ~IsMov(image.code[insn_pc], last'.regs)
         /\ ~IsAddImm(image.code[insn_pc], last'.regs)
         /\ ~IsCall(image.code[insn_pc])) =>
          LET insn == image.code[insn_pc]
              before == last'.regs
              lost == FlaggedWritten(insn) \cup (IF insn.writeback THEN Bases(insn) ELSE {})
          IN /\ (DOMAIN before) \ (DOMAIN regs') = lost \cap DOMAIN before
             /\ DOMAIN regs' \subseteq DOMAIN before
             /\ \A r \in DOMAIN regs' : regs'[r] = before[r] ]_vars

\* a write-back load has just been processed with its base and another
\* register known: the base lost its offset, the other register kept it
C22_Witness ==
    /\ pc = "block"
    /\ last.ea \in DOMAIN image.code
    /\ insn_pc = last.ea + InsnSize
    /\ image.code[last.ea].writeback
    /\ Bases(image.code[last.ea]) \cap DOMAIN last.regs # {}
    /\ Bases(image.code[last.ea]) \cap DOMAIN regs = {}
    /\ DOMAIN regs # {}

\* ------------------------------------------------------------------------
\* C23.  Recording uses the registers before the instruction's own update:
\* processing an instruction without write-back puts, for every
\* memory-reference operand of recognised size whose base has offset O
\* after the pins, the observation (address, O) under the key
\* ((O + displacement) mod 2^w, size), whatever the instruction then does to
\* its registers; a load into its own base records with O and leaves the
\* base without offset.
\* ------------------------------------------------------------------------
RecognisedWidths == {"dt_byte", "dt_word", "dt_dword", "dt_qword"}

WidthOf(dt) ==
    CASE dt = "dt_byte" -> 1 [] dt = "dt_word" -> 2 [] dt = "dt_dword" -> 4 [] dt = "dt_qword" -> 8

C23_RecordBeforeUpdate ==
    [][ (/\ pc = "block"
         /\ insn_pc' # insn_pc
         /\ insn_pc \in DOMAIN image.code
         /\ ~image.code[insn_pc].writeback) =>
          LET insn == image.code[insn_pc]
              before == last'.regs
          IN \A j \in 1 .. Len(insn.Ops) :
                (/\ insn.Ops[j].type = "o_displ"
                 /\ insn.Ops[j].dtyp \in RecognisedWidths
                 /\ insn.Ops[j].reg \in DOMAIN before) =>
                   /\ <<(before[insn.Ops[j].reg] + insn.Ops[j].addr) % (2 ^ WordBits),
                        WidthOf(insn.Ops[j].dtyp), insn_pc, before[insn.Ops[j].reg]>>
                          \in AllObs(accesses')
                   /\ (insn.itype = "ARM_ldr" /\ insn.Ops[1].reg = insn.Ops[j].reg) =>
                         insn.Ops[j].reg \notin DOMAIN regs' ]_vars

\* a load into its own base has just recorded its access with the offset
\* the base had, and the base has no offset any more
C23_Witness ==
    /\ pc = "block"
    /\ last.ea \in DOMAIN image.code
    /\ insn_pc = last.ea + InsnSize
    /\ LET insn == image.code[last.ea] IN
          /\ insn.itype = "ARM_ldr"
          /\ ~insn.writeback
          /\ insn.Ops[1].reg = insn.Ops[2].reg
          /\ insn.Ops[2].reg \in DOMAIN last.regs
          /\ insn.Ops[2].reg \notin DOMAIN regs
          /\ \E o \in AllObs(accesses) : o[3] = last.ea /\ o[4] = last.regs[insn.Ops[2].reg]

\* ------------------------------------------------------------------------
\* C24.  Unknown operand width is skipped silently: processing an
\* instruction without write-back whose only memory-reference operand goes
\* through a register with known offset and has a size code outside the
\* width table records nothing and raises nothing, leaves the registers as
\* the same instruction with a recognised size would, and the decoder goes
\* on to the next instruction of the block.
\* ------------------------------------------------------------------------
\* insn has exactly one memory-reference operand, of unknown width, through
\* a register that r knows
UnknownWidthAccess(insn, r) ==
    /\ ~insn.writeback
    /\ Cardinality({ k \in 1 .. Len(insn.Ops) : insn.Ops[k].type = "o_displ" }) = 1
    /\ \A k \in 1 .. Len(insn.Ops) :
          insn.Ops[k].type = "o_displ" =>
             /\ insn.Ops[k].dtyp \notin RecognisedWidths
             /\ insn.Ops[k].reg \in DOMAIN r

\* insn with the width of every operand replaced by dt
WithWidth(insn, dt) ==
    [insn EXCEPT !.Ops = [k \in 1 .. Len(insn.Ops) |-> [insn.Ops[k] EXCEPT !.dtyp = dt]]]

C24_UnknownWidthSkipped ==
    [][ (/\ pc = "block"
         /\ insn_pc \in DOMAIN image.code
         /\ insn_pc + image.code[insn_pc].size <= BlockOf(bb).endEA
         /\ UnknownWidthAccess(image.code[insn_pc], ApplyFix(initialization, insn_pc, regs))) =>
          /\ accesses' = accesses
          /\ error' = "None"
          /\ pc' = "block"
          /\ insn_pc' = insn_pc + image.code[insn_pc].size
          /\ regs' = UpdateRegs(WithWidth(image.code[insn_pc], "dt_qword"),
                                ApplyFix(initialization, insn_pc, regs)) ]_vars

\* the instruction after a load of unknown width through a known register
\* has just recorded its access, and the load of unknown width has none on
\* record
C24_Witness ==
    /\ pc = "block"
    /\ last.ea \in DOMAIN image.code
    /\ (last.ea - InsnSize) \in DOMAIN image.code
    /\ last.ea - InsnSize >= BlockOf(bb).startEA
    /\ \E r \in { RegMap(X0, 144), RegMap(X0, WordMask - 7) } :
          UnknownWidthAccess(image.code[last.ea - InsnSize], r)
    /\ PinnedAt(initialization, last.ea - InsnSize) = {X0}
    /\ \E o \in AllObs(accesses) : o[3] = last.ea
    /\ \A o \in AllObs(accesses) : o[3] # last.ea - InsnSize

\* ------------------------------------------------------------------------
\* C25.  Stability at termination: when the queue is empty, for every block
\* b that was popped at least once and every successor s of b, every
\* register of the exit registers that one pass of the transfer function
\* over b yields from b's final entry registers is in the final entry
\* registers of s.
\* ------------------------------------------------------------------------
\* the blocks popped so far
Processed == { trace[i] : i \in 1 .. Len(trace) }

\* the outcome of one pass over block b from its entry registers as they are
FinalPass(b) == ProcessBlock(image.code, initialization, BlockOf(b), bb_regs[b])

C25_StableAtTermination ==
    (pc \in {"loop", "returned"} /\ queue = <<>>) =>
        \A b \in Processed : \A s \in SuccSet(flow, b) :
            DOMAIN FinalPass(b).regs \subseteq DOMAIN bb_regs[s]

\* a call returned after a block with another block among its successors
\* had been popped twice, with two registers in its final entry registers
\* and in the exit registers of a pass from them
C25_Witness ==
    /\ pc = "returned"
    /\ \E b \in Processed :
          /\ Passes(b) >= 2
          /\ SuccSet(flow, b) \ {b} # {}
          /\ Cardinality(DOMAIN bb_regs[b]) >= 2
          /\ Cardinality(DOMAIN FinalPass(b).regs) >= 2

\* ------------------------------------------------------------------------
\* C26.  No stale observations: every MOV and ADD of the image flags its
\* destination as written; when a call without sink has returned, the
\* observations of the returned dictionary are exactly those that one pass
\* of the transfer function produces from the final entry registers of each
\* block popped at least once, taken together.
\* ------------------------------------------------------------------------
\* every MOV and ADD of the image flags operand 1 as written
DestinationsFlagged(im) ==
    \A a \in DOMAIN im.code :
        im.code[a].itype \in {"ARM_mov", "ARM_add"} => 0 \in im.code[a].feature

C26_NoStaleObservations ==
    (pc = "returned" /\ ~sink /\ DestinationsFlagged(image)) =>
        /\ ~result.none
        /\ AllObs(result.value) = UNION { FinalPass(b).obs : b \in Processed }

\* a call returned whose first pass was over a block with empty entry
\* registers that recorded through a pinned register; the block was popped
\* again after a merge had given it entry registers, and its observations
\* are in the returned dictionary
C26_Witness ==
    /\ pc = "returned"
    /\ ~sink
    /\ trace # <<>>
    /\ Passes(trace[1]) >= 2
    /\ DOMAIN bb_regs[trace[1]] # {}
    /\ \E o \in AllObs(result.value) :
          BlockOf(trace[1]).startEA <= o[3] /\ o[3] < BlockOf(trace[1]).endEA

\* ------------------------------------------------------------------------
\* C27.  Observation well-formedness: at every step of a call without sink,
\* each observation (ea, delta) under a key (offset, size) is at the address
\* of an instruction without write-back inside a block of the flow chart
\* that has a memory-reference operand of recognised size equal to size and
\* displacement d with offset = (delta + d) mod 2^w; and no step of the call
\* removes an observation.
\* ------------------------------------------------------------------------
\* o = <<offset, size, ea, delta>> is what an instruction of the flow chart
\* can record
WellFormed(o) ==
    /\ o[3] \in DOMAIN image.code
    /\ \E i \in 1 .. Len(flow) :
          flow[i].startEA <= o[3] /\ o[3] + image.code[o[3]].size <= flow[i].endEA
    /\ ~image.code[o[3]].writeback
    /\ \E j \in 1 .. Len(image.code[o[3]].Ops) :
          LET op == image.code[o[3]].Ops[j] IN
          /\ op.type = "o_displ"
          /\ op.dtyp \in RecognisedWidths
          /\ WidthOf(op.dtyp) = o[2]
          /\ o[1] = (o[4] + op.addr) % (2 ^ WordBits)

C27_ObservationsWellFormed ==
    [][ ~sink =>
          /\ \A o \in AllObs(accesses') : WellFormed(o)'
          /\ AllObs(accesses) \subseteq AllObs(accesses') ]_vars

\* a call without sink returned with two observations under one key and
\* with an observation whose key offset wrapped around the word
C27_Witness ==
    /\ pc = "returned"
    /\ ~sink
    /\ \E k \in DOMAIN accesses : Cardinality(accesses[k]) >= 2
    /\ \E o \in AllObs(accesses) : o[1] < o[4]

\* ------------------------------------------------------------------------
\* C28.  Reachability: a block that neither contains an address of
\* initialization nor is reachable along successor edges from a block that
\* does is never queued or popped, has empty entry registers throughout the
\* call, and no observation the call records is at one of its addresses.
\* ------------------------------------------------------------------------
\* the blocks that contain an address of initialization
SeedBlocks == { b \in BlockIds(flow) : HoldsKey(flow, initialization, b) }

\* those blocks and the blocks reachable from them
LiveBlocks == SeedBlocks \cup UNION { ReachableFrom(flow, b) : b \in SeedBlocks }

C28_OnlyReachableProcessed ==
    (pc \in {"seed", "loop", "block", "returned", "raised"} /\ flow # <<>>) =>
        \A b \in BlockIds(flow) \ LiveBlocks :
            /\ b \notin Processed
            /\ \A i \in 1 .. Len(queue) : queue[i] # b
            /\ ~(pc = "block" /\ bb = b)
            /\ bb_regs[b] = EmptyMap
            /\ \A o \in AllObs(accesses) \ AllObs(accesses0) :
                  ~(BlockOf(b).startEA <= o[3] /\ o[3] < BlockOf(b).endEA)

\* a call returned with observations on record, having left aside a block
\* that holds a memory access and has a seeded or reachable block among
\* its successors, but is itself neither seeded nor reachable
C28_Witness ==
    /\ pc = "returned"
    /\ AllObs(accesses) # {}
    /\ \E b \in BlockIds(flow) \ LiveBlocks :
          /\ \E i \in InsnsOf(image, b) : HasDispl(i)
          /\ SuccSet(flow, b) \cap LiveBlocks # {}

====
